---- MODULE Spec2Model ----
(***************************************************************************)
(* A model of the fake-news detector's orchestration and scoring engine:   *)
(* FakeNewsAgent.calculate_verification_score (the scoring engine),        *)
(* FakeNewsAgent.analyze_news (the orchestrator), the collector calls of   *)
(* AIAnalysisService that the orchestrator makes, NewsAPIService.search_news *)
(* provider by provider and WikipediaService.find_relevant_articles fetch  *)
(* by fetch.                                                               *)
(*                                                                         *)
(* Python dictionaries are functions whose domain is the set of keys that  *)
(* are present; d.get(k, default) is Get(d, k, default).                   *)
(***************************************************************************)
EXTENDS Integers, Sequences, FiniteSets, TLC

VARIABLES
    pc,                   \* position of the call being modelled
    reddit_data,          \* payload of RedditService.analyze_credibility
    wiki_articles,        \* list returned by WikipediaService.find_relevant_articles
    news_data,            \* payload of NewsAPIService.search_news
    rag_analysis,         \* payload of AIAnalysisService.analyze_news_with_rag
    verification_result,  \* dictionary returned by calculate_verification_score
    prev_call,            \* inputs and result of the previous call of the engine
    ai_service,           \* fields of the AIAnalysisService after construction
    request,              \* arguments of analyze_news: publication date and content
    age,                  \* is_old_news and news_age_days
    subcategory,          \* subcategory_analysis and subcategory_info_for_rag
    done,                 \* first-stage collectors whose task has completed
    task_result,          \* the value each completed task holds for asyncio.gather
    sentiment_analysis,   \* payload of AIAnalysisService.analyze_sentiment
    rag_call,             \* arguments the fact-check call was given
    summary_call,         \* arguments the summary call was given
    news_summary_obj,     \* payload of AIAnalysisService.generate_news_summary
    result,               \* the report analyze_news returns
    hung,                 \* external calls of the run that never return
    available_apis,       \* NewsAPIService.available_apis
    news_tasks,           \* the provider coroutines search_news gathers
    wikipedia_robust,     \* config.WIKIPEDIA_ROBUST
    article_titles,       \* find_relevant_articles: the titles the search returned
    candidate,            \* find_relevant_articles: position of the for loop
    articles,             \* find_relevant_articles: the articles kept so far
    title,                \* get_article_content: the title being fetched
    retry_count,          \* get_article_content: transient failures so far
    waits,                \* get_article_content: the back-off sleeps made so far
    last_fetch,           \* get_article_content: what the last fetch met
    search_results,       \* analyze_credibility: the posts search_reddit returned
    analyzer_input,       \* analyze_sentiment: the text handed to the pipeline
    completion_order      \* the tasks of a gather, in the order they completed

engine_vars == <<reddit_data, wiki_articles, news_data, rag_analysis,
                 verification_result, prev_call>>

agent_vars == <<ai_service, request, age, subcategory, done, task_result,
                sentiment_analysis, rag_call, summary_call, news_summary_obj, result>>

news_vars == <<available_apis, news_tasks>>

wiki_vars == <<wikipedia_robust, article_titles, candidate, articles, title,
               retry_count, waits, last_fetch>>

service_vars == <<hung, news_vars, wiki_vars, search_results, analyzer_input, completion_order>>

vars == <<pc, engine_vars, agent_vars, service_vars>>

\* ---------------------------------------------------------------- bounds
MaxDiscussions == 25
MaxSources == 6
MaxArticles == 6
MaxWiki == 3
MaxFactual == 100
MaxProviderArticles == 9
MaxHops == 3
MaxPosts == 8
MaxTextLen == 600

\* ---------------------------------------------------------------- helpers
\* Python's None, for a variable that holds no dictionary yet.
None == [none |-> TRUE]

\* dict.get(k, default)
Get(d, k, default) == IF k \in DOMAIN d THEN d[k] ELSE default

Min(a, b) == IF a < b THEN a ELSE b
Max(a, b) == IF a > b THEN a ELSE b

\* a list of n articles (only its length is read by the scoring engine)
Articles(n) == [i \in 1..n |-> [title |-> i]]

\* ------------------------------------------------ the scoring engine
\* the middle rung of the tier ladder mistyped: 11..20 discussions score below 1..10
RedditDiscussionScore_MiddleRungLow(rd) ==
    IF Get(rd, "reddit_results", FALSE)
    THEN LET discussion_count == Get(rd, "discussion_count", 0) IN
         IF discussion_count > 20 THEN 15
         ELSE IF discussion_count > 10 THEN 3
         ELSE IF discussion_count > 0 THEN 5
         ELSE 0
    ELSE 0

\* fake_news_agent.py:170-180: the discussion-volume tier, gated on the
\* payload's reddit_results flag (a missing flag is None, which is falsy).
RedditDiscussionScore(rd) ==
    IF Get(rd, "reddit_results", FALSE)
    THEN LET discussion_count == Get(rd, "discussion_count", 0) IN
         IF discussion_count > 20 THEN 15
         ELSE IF discussion_count > 10 THEN 10
         ELSE IF discussion_count > 0 THEN 5
         ELSE 0
    ELSE 0

\* the cap of 15 forgotten
NewsSourcesScore_Uncapped(nd) == Get(nd, "sources_count", 0) * 3

\* fake_news_agent.py:182
NewsSourcesScore(nd) == Min(15, Get(nd, "sources_count", 0) * 3)

\* fake_news_agent.py:183
SourceCredibility(rd, nd) == RedditDiscussionScore(rd) + NewsSourcesScore(nd)

\* fake_news_agent.py:186-195
ContentConsistency(nd) ==
    LET articles_count == Get(nd, "articles_count", 0) IN
    IF articles_count >= 5 THEN 30
    ELSE IF articles_count >= 3 THEN 20
    ELSE IF articles_count >= 1 THEN 10
    ELSE 0

\* the weight 0.4 in place of 0.3
RagScore_Weight04(factual_score) == (factual_score * 4) \div 10

\* fake_news_agent.py:203: int(factual_score * 0.3); int() truncates toward
\* zero, and for an integer factual_score the float product truncates to the
\* same integer as the exact 3 * factual_score / 10.
RagScore(factual_score) ==
    IF factual_score >= 0
    THEN (factual_score * 3) \div 10
    ELSE -(((-factual_score) * 3) \div 10)

\* > in place of >= at the upper tier
WikiScore_StrictUpperTier(wa) ==
    IF Len(wa) > 3 THEN 10
    ELSE IF Len(wa) >= 1 THEN 5
    ELSE 0

\* fake_news_agent.py:205-211
WikiScore(wa) ==
    LET wiki_related_articles_count == Len(wa) IN
    IF wiki_related_articles_count >= 3 THEN 10
    ELSE IF wiki_related_articles_count >= 1 THEN 5
    ELSE 0

\* fake_news_agent.py:198, 212
FactVerification(wa, ra) ==
    RagScore(Get(ra, "factual_score", 0)) + WikiScore(wa)

\* the AI flag kept up to a total of 70
IsFakeFinal_FlagKeptTo70(rag_is_fake_from_llm, total_score) ==
    IF rag_is_fake_from_llm THEN total_score < 70 ELSE total_score < 40

\* one threshold for both AI answers
IsFakeFinal_SingleThreshold(rag_is_fake_from_llm, total_score) == total_score < 40

\* fake_news_agent.py:222-227
IsFakeFinal(rag_is_fake_from_llm, total_score) ==
    IF rag_is_fake_from_llm
    THEN (IF total_score < 60 THEN TRUE ELSE FALSE)
    ELSE IF total_score < 40 THEN TRUE
    ELSE FALSE

\* the low-score branch tested before the agreement branch
Confidence_LowScoreFirst(is_fake_final, rag_is_fake_from_llm, total_score, llm_confidence) ==
    IF total_score < 30 /\ is_fake_final
    THEN Max(100 - total_score, llm_confidence)
    ELSE IF (is_fake_final /\ rag_is_fake_from_llm) \/ (~is_fake_final /\ ~rag_is_fake_from_llm)
    THEN Max(llm_confidence, 75)
    ELSE IF total_score > 70 /\ ~is_fake_final
    THEN Max(total_score, llm_confidence)
    ELSE Min(llm_confidence, 60)

\* fake_news_agent.py:235-242
Confidence(is_fake_final, rag_is_fake_from_llm, total_score, llm_confidence) ==
    IF (is_fake_final /\ rag_is_fake_from_llm) \/ (~is_fake_final /\ ~rag_is_fake_from_llm)
    THEN Max(llm_confidence, 75)
    ELSE IF total_score > 70 /\ ~is_fake_final
    THEN Max(total_score, llm_confidence)
    ELSE IF total_score < 30 /\ is_fake_final
    THEN Max(100 - total_score, llm_confidence)
    ELSE Min(llm_confidence, 60)

\* only the upper clamp
ClampConfidence_UpperOnly(confidence) == Min(100, confidence)

\* fake_news_agent.py:244
ClampConfidence(confidence) == Min(100, Max(0, confidence))

\* fake_news_agent.py:140-256
CalculateVerificationScore(rd, wa, nd, ra) ==
    LET source_credibility == SourceCredibility(rd, nd)
        content_consistency == ContentConsistency(nd)
        rag_factual_score_from_llm == Get(ra, "factual_score", 0)
        rag_is_fake_from_llm == Get(ra, "is_fake", FALSE)
        fact_verification == FactVerification(wa, ra)
        total_score == source_credibility + content_consistency + fact_verification
        is_fake_final == IsFakeFinal(rag_is_fake_from_llm, total_score)
        llm_confidence == Get(ra, "confidence", 70)
        confidence == ClampConfidence(
            Confidence(is_fake_final, rag_is_fake_from_llm, total_score, llm_confidence))
    IN  [verdict |-> IF is_fake_final THEN "FAKE" ELSE "REAL",
         is_fake |-> is_fake_final,
         score |-> total_score,
         confidence |-> confidence,
         source_credibility |-> source_credibility,
         content_consistency |-> content_consistency,
         fact_verification |-> fact_verification,
         debug_rag_is_fake |-> rag_is_fake_from_llm,
         debug_rag_factual_score |-> rag_factual_score_from_llm]

\* ------------------------------------- inputs of a direct call of the engine
\* an optional dictionary entry: <<>> when the key is absent
Opt(S) == {<<>>} \cup {<<x>> : x \in S}
Entry(k, o) == IF o = <<>> THEN [x \in {} |-> 0] ELSE (k :> o[1])

DiscussionCounts == {0, 1, 10, 11, 20, 21, MaxDiscussions}
FactualScores == {0, 5, 20, 25, 33, 50, 67, 90, 99, MaxFactual}
ConfidenceValues == {-5, 50, 80, 95, 120}

RedditPayloads ==
    {[reddit_results |-> f, discussion_count |-> n] :
        f \in BOOLEAN, n \in DiscussionCounts}

NewsPayloads ==
    {[articles_count |-> a, sources_count |-> s, articles |-> <<>>] :
        a \in 0..MaxArticles, s \in 0..MaxSources}

RagPayloads ==
    {[raw_analysis |-> "text"] @@ Entry("factual_score", f)
        @@ Entry("is_fake", k) @@ Entry("confidence", c) :
        f \in Opt(FactualScores), k \in Opt(BOOLEAN), c \in Opt(ConfidenceValues)}

\* --------------------------------------------------- the AI analysis service
\* ai_service.py:30-38, 45-158: the fields the constructor leaves. models_load
\* is false when initialize_models raises before the chains are built (line
\* 154 then clears only the three model fields); llm_init is false when the
\* provider's client raises (lines 125-128, 147-150).
AIAnalysisServiceInit(ai_provider, has_key, models_load, llm_init) ==
    LET openai_available == ai_provider = "openai" /\ has_key
        gemini_available == ai_provider = "gemini" /\ has_key
    IN  IF ~models_load
        THEN [openai_available |-> openai_available,
              gemini_available |-> gemini_available,
              sentiment_analyzer |-> FALSE,
              has_chains |-> FALSE]
        ELSE IF (openai_available \/ gemini_available) /\ llm_init
        THEN [openai_available |-> openai_available,
              gemini_available |-> gemini_available,
              sentiment_analyzer |-> TRUE,
              has_chains |-> TRUE]
        ELSE [openai_available |-> FALSE,
              gemini_available |-> FALSE,
              sentiment_analyzer |-> TRUE,
              has_chains |-> FALSE]

AIServiceStates ==
    {AIAnalysisServiceInit(p, k, m, l) :
        p \in {"openai", "gemini"}, k \in BOOLEAN, m \in BOOLEAN, l \in BOOLEAN}

\* ai_service.py:160-191
AnalyzeSentiment(svc, inference_ok) ==
    IF ~svc.sentiment_analyzer
    THEN [error |-> "Sentiment analyzer not initialized"]
    ELSE IF inference_ok
    THEN [sentiment |-> "positive", score |-> 1, analysis |-> "Positive sentiment"]
    ELSE [error |-> "inference failed"]

\* "w" in text, for a text kept as its list of words
Contains(text, w) == \E i \in DOMAIN text : text[i] = w

\* ai_service.py:345-347, 352-354: one numeric field of the response. A field
\* is absent (no heading), "nocolon" (heading without its colon: the split has
\* no second part), "garbled" (the text before % is no number) or a value.
\* An exception leaves the fields parsed so far and ends the parse (line 355).
ParseNumber(state, field, key) ==
    IF ~state.ok \/ field.kind = "absent" THEN state
    ELSE IF field.kind = "value"
    THEN [ok |-> TRUE, dict |-> (key :> field.value) @@ state.dict]
    ELSE [ok |-> FALSE, dict |-> state.dict]

\* ai_service.py:348-351
ParseVerdict(state, field) ==
    IF ~state.ok \/ field.kind = "absent" THEN state
    ELSE IF field.kind = "text"
    THEN [ok |-> TRUE,
          dict |-> [verdict |-> field.text,
                    is_fake |-> Contains(field.text, "fake")
                                \/ Contains(field.text, "misleading")]
                   @@ state.dict]
    ELSE [ok |-> FALSE, dict |-> state.dict]

\* ai_service.py:339-358
ParseResponse(response) ==
    LET start == [ok |-> TRUE, dict |-> [raw_analysis |-> response]]
        afterScore == ParseNumber(start, response.score, "factual_score")
        afterVerdict == ParseVerdict(afterScore, response.verdict)
        afterConfidence == ParseNumber(afterVerdict, response.confidence, "confidence")
    IN  afterConfidence.dict

\* the availability test put after the chain test: the missing attribute is read first
AnalyzeNewsWithRag_ChainTestedFirst(svc, llm) ==
    IF ~svc.has_chains
    THEN [raised |-> TRUE, value |-> None]
    ELSE IF ~(svc.openai_available \/ svc.gemini_available)
    THEN [raised |-> FALSE,
          value |-> [error |-> "LLM (OpenAI or Gemini) API is not available or chain not initialized"]]
    ELSE IF llm.kind = "raises"
    THEN [raised |-> FALSE, value |-> [error |-> "llm call failed"]]
    ELSE [raised |-> FALSE, value |-> ParseResponse(llm.response)]

\* the model call and the parse outside the handler of line 360: a raising call
\* leaves the method as an exception
AnalyzeNewsWithRag_NoHandler(svc, llm) ==
    IF ~(svc.openai_available \/ svc.gemini_available)
    THEN [raised |-> FALSE,
          value |-> [error |-> "LLM (OpenAI or Gemini) API is not available or chain not initialized"]]
    ELSE IF ~svc.has_chains
    THEN [raised |-> TRUE, value |-> None]
    ELSE IF llm.kind = "raises"
    THEN [raised |-> TRUE, value |-> None]
    ELSE [raised |-> FALSE, value |-> ParseResponse(llm.response)]

\* ai_service.py:309-362. With no provider the `or` stops at its first
\* operand; with a provider it reads self.fact_check_chain, an attribute that
\* exists only when the chains were built, outside any try.
AnalyzeNewsWithRag(svc, llm) ==
    IF ~(svc.openai_available \/ svc.gemini_available)
    THEN [raised |-> FALSE,
          value |-> [error |-> "LLM (OpenAI or Gemini) API is not available or chain not initialized"]]
    ELSE IF ~svc.has_chains
    THEN [raised |-> TRUE, value |-> None]
    ELSE IF llm.kind = "raises"
    THEN [raised |-> FALSE, value |-> [error |-> "llm call failed"]]
    ELSE [raised |-> FALSE, value |-> ParseResponse(llm.response)]

\* ai_service.py:423-442
GenerateNewsSummary(svc, llm_ok) ==
    IF ~(svc.openai_available \/ svc.gemini_available)
    THEN [raised |-> FALSE,
          value |-> [summary_text |-> "Summarization service not available."]]
    ELSE IF ~svc.has_chains
    THEN [raised |-> TRUE, value |-> None]
    ELSE IF llm_ok
    THEN [raised |-> FALSE, value |-> [summary_text |-> "summary"]]
    ELSE [raised |-> FALSE, value |-> [summary_text |-> "Error generating summary"]]

\* ai_service.py:364-402: the placeholder classifier, by the keyword the content holds
ClassifyNewsSubcategoriesHf(content) ==
    IF content = "election"
    THEN [primary_subcategory |-> "Politics",
          secondary_subcategory |-> "Domestic Elections", confidence |-> 85]
    ELSE IF content = "market"
    THEN [primary_subcategory |-> "Economics",
          secondary_subcategory |-> "Stock Market", confidence |-> 90]
    ELSE [primary_subcategory |-> "General News",
          secondary_subcategory |-> "None", confidence |-> 70]

\* ------------------------------------------------------ the other collectors
\* reddit_service.py:31: the search limit
SearchLimit == 20

\* reddit_service.py:125-171, for a search that returned n posts (the search
\* returns [] when it fails, lines 69-71)
AnalyzeCredibility(n) ==
    IF n = 0
    THEN [reddit_results |-> FALSE, discussion_count |-> 0,
          top_sources |-> <<>>, sentiment_summary |-> "No Reddit discussions found"]
    ELSE [reddit_results |-> TRUE, discussion_count |-> n]

\* n articles from k sources in turn
ArticlesFrom(n, k) == [i \in 1..n |-> [title |-> i, source |-> ((i - 1) % k) + 1]]

Take(seq, n) == SubSeq(seq, 1, Min(n, Len(seq)))

\* the count taken after the cut to 20 instead of before it
SearchNews_CountAfterCut(all_articles) ==
    [articles_count |-> Len(Take(all_articles, 20)),
     sources_count |-> Cardinality({all_articles[i].source : i \in DOMAIN all_articles}),
     articles |-> Take(all_articles, 20)]

\* news_service.py:214-229
SearchNews(all_articles) ==
    [articles_count |-> Len(all_articles),
     sources_count |-> Cardinality({all_articles[i].source : i \in DOMAIN all_articles}),
     articles |-> Take(all_articles, 20)]

\* ------------------------------------------------------------ the orchestrator
Collectors == {"reddit", "wiki", "news", "sentiment"}

\* the cutoff read as "180 days or more"
DetermineAge_CutoffInclusive(publication_date) ==
    IF publication_date.kind = "date"
    THEN [is_old_news |-> publication_date.age_days >= 180,
          news_age_days |-> <<publication_date.age_days>>]
    ELSE [is_old_news |-> FALSE, news_age_days |-> <<>>]

\* fake_news_agent.py:45-58; the date is known by its age in days
DetermineAge(publication_date) ==
    IF publication_date.kind = "date"
    THEN [is_old_news |-> publication_date.age_days > 180,
          news_age_days |-> <<publication_date.age_days>>]
    ELSE [is_old_news |-> FALSE, news_age_days |-> <<>>]

\* fake_news_agent.py:66
SubcategoryInfoForRag(analysis) ==
    [primary |-> Get(analysis, "primary_subcategory", "N/A"),
     secondary |-> Get(analysis, "secondary_subcategory", "N/A"),
     confidence |-> Get(analysis, "confidence", 0)]

\* fake_news_agent.py:68
RecentInfoForRag == [recent |-> TRUE]

PublicationDates ==
    {[kind |-> "none"], [kind |-> "invalid"]}
        \cup {[kind |-> "date", age_days |-> d] : d \in {180, 181}}

Requests ==
    {[publication_date |-> d, content |-> c] :
        d \in PublicationDates, c \in {"election", "other"}}

RedditResultCounts == {0, 11, SearchLimit}

NewsResults ==
    {ArticlesFrom(n, k) : n \in {0, 1, 3, MaxArticles}, k \in {1, MaxSources}}

\* the score the response states is whatever number the model wrote: the parse
\* has no range test (ai_service.py:347)
NumberFields == {[kind |-> "absent"], [kind |-> "nocolon"], [kind |-> "garbled"]}
                    \cup {[kind |-> "value", value |-> v] : v \in {20, 90, 150}}

VerdictFields == {[kind |-> "absent"], [kind |-> "nocolon"],
                  [kind |-> "text", text |-> <<"real", "news">>],
                  [kind |-> "text", text |-> <<"fake", "misleading", "news">>]}

ConfidenceFields == {[kind |-> "absent"], [kind |-> "value", value |-> 80]}

LlmOutcomes ==
    {[kind |-> "raises"]} \cup
    {[kind |-> "text", response |-> [score |-> f, verdict |-> v, confidence |-> c]] :
        f \in NumberFields, v \in VerdictFields, c \in ConfidenceFields}

\* no call of the news or reference service is being followed step by step
NewsIdle ==
    /\ available_apis = <<>>
    /\ news_tasks = <<>>

WikiIdle ==
    /\ wikipedia_robust = TRUE
    /\ article_titles = <<>>
    /\ candidate = 0
    /\ articles = <<>>
    /\ title = None
    /\ retry_count = 0
    /\ waits = <<>>
    /\ last_fetch = None

RedditIdle == search_results = <<>>

SentimentIdle == analyzer_input = <<>>

ServicesIdle ==
    /\ hung = {}
    /\ completion_order = <<>>
    /\ NewsIdle
    /\ WikiIdle
    /\ RedditIdle
    /\ SentimentIdle

Init ==
    /\ pc = "classify_age"
    /\ ai_service \in AIServiceStates
    /\ request \in Requests
    /\ age = None
    /\ subcategory = None
    /\ done = {}
    /\ task_result = [c \in Collectors |-> None]
    /\ reddit_data = None
    /\ wiki_articles = None
    /\ news_data = None
    /\ sentiment_analysis = None
    /\ rag_call = None
    /\ rag_analysis = None
    /\ verification_result = None
    /\ summary_call = None
    /\ news_summary_obj = None
    /\ result = None
    /\ prev_call = None
    /\ ServicesIdle

\* fake_news_agent.py:45-58
ClassifyAge ==
    /\ pc = "classify_age"
    /\ age' = DetermineAge(request.publication_date)
    /\ pc' = "subcategory"
    /\ UNCHANGED <<engine_vars, service_vars, ai_service, request, subcategory, done, task_result,
                   sentiment_analysis, rag_call, summary_call, news_summary_obj, result>>

\* fake_news_agent.py:61-66
ClassifySubcategories ==
    /\ pc = "subcategory"
    /\ age.is_old_news
    /\ LET subcategory_analysis == ClassifyNewsSubcategoriesHf(request.content) IN
       subcategory' = [analysis |-> subcategory_analysis,
                       info_for_rag |-> SubcategoryInfoForRag(subcategory_analysis)]
    /\ pc' = "gather"
    /\ UNCHANGED <<engine_vars, service_vars, ai_service, request, age, done, task_result,
                   sentiment_analysis, rag_call, summary_call, news_summary_obj, result>>

\* fake_news_agent.py:60, 67-68
SkipSubcategories ==
    /\ pc = "subcategory"
    /\ ~age.is_old_news
    /\ subcategory' = [analysis |-> None, info_for_rag |-> RecentInfoForRag]
    /\ pc' = "gather"
    /\ UNCHANGED <<engine_vars, service_vars, ai_service, request, age, done, task_result,
                   sentiment_analysis, rag_call, summary_call, news_summary_obj, result>>

\* a first-stage task completes with value v (fake_news_agent.py:71-79)
Complete(c, v) ==
    /\ done' = done \cup {c}
    /\ task_result' = [task_result EXCEPT ![c] = v]
    /\ UNCHANGED <<pc, engine_vars, service_vars, ai_service, request, age, subcategory,
                   sentiment_analysis, rag_call, summary_call, news_summary_obj, result>>

\* fake_news_agent.py:72
RedditTask ==
    /\ pc = "gather"
    /\ "reddit" \notin done
    /\ "reddit" \notin hung
    /\ \E n \in RedditResultCounts : Complete("reddit", AnalyzeCredibility(n))

\* fake_news_agent.py:73
WikiTask ==
    /\ pc = "gather"
    /\ "wiki" \notin done
    /\ "wiki" \notin hung
    /\ \E n \in 0..MaxWiki : Complete("wiki", Articles(n))

\* fake_news_agent.py:74
NewsTask ==
    /\ pc = "gather"
    /\ "news" \notin done
    /\ \E all_articles \in NewsResults : Complete("news", SearchNews(all_articles))

\* fake_news_agent.py:75
SentimentTask ==
    /\ pc = "gather"
    /\ "sentiment" \notin done
    /\ \E inference_ok \in BOOLEAN :
          Complete("sentiment", AnalyzeSentiment(ai_service, inference_ok))

\* a wait that returns on the first completed task instead of all of them
GatherReturn_FirstCompleted ==
    /\ pc = "gather"
    /\ done # {}
    /\ reddit_data' = task_result["reddit"]
    /\ wiki_articles' = task_result["wiki"]
    /\ news_data' = task_result["news"]
    /\ sentiment_analysis' = task_result["sentiment"]
    /\ pc' = "rag"
    /\ UNCHANGED <<rag_analysis, verification_result, prev_call, service_vars, ai_service, request, age,
                   subcategory, done, task_result, rag_call, summary_call,
                   news_summary_obj, result>>

\* fake_news_agent.py:79: gather returns once every task is complete, with the
\* results in the order of the task list
GatherReturn ==
    /\ pc = "gather"
    /\ done = Collectors
    /\ reddit_data' = task_result["reddit"]
    /\ wiki_articles' = task_result["wiki"]
    /\ news_data' = task_result["news"]
    /\ sentiment_analysis' = task_result["sentiment"]
    /\ pc' = "rag"
    /\ UNCHANGED <<rag_analysis, verification_result, prev_call, service_vars, ai_service, request, age,
                   subcategory, done, task_result, rag_call, summary_call,
                   news_summary_obj, result>>

\* fake_news_agent.py:82-88
RagStep ==
    /\ pc = "rag"
    /\ "rag" \notin hung
    /\ \E llm \in LlmOutcomes :
          LET news_articles == Get(news_data, "articles", <<>>)
              r == AnalyzeNewsWithRag(ai_service, llm)
          IN  /\ rag_call' = [wiki_data |-> wiki_articles, news_data |-> news_articles,
                              subcategory_info |-> subcategory.info_for_rag]
              /\ rag_analysis' = r.value
              /\ pc' = IF r.raised THEN "raised" ELSE "score"
    /\ UNCHANGED <<reddit_data, wiki_articles, news_data, verification_result, prev_call,
                   service_vars, ai_service, request, age, subcategory, done, task_result,
                   sentiment_analysis, summary_call, news_summary_obj, result>>

\* fake_news_agent.py:91-93
ScoreStep ==
    /\ pc = "score"
    /\ verification_result' =
           CalculateVerificationScore(reddit_data, wiki_articles, news_data, rag_analysis)
    /\ pc' = "summary"
    /\ UNCHANGED <<reddit_data, wiki_articles, news_data, rag_analysis, prev_call, agent_vars, service_vars>>

\* fake_news_agent.py:96-103
SummaryStep ==
    /\ pc = "summary"
    /\ "summary" \notin hung
    /\ \E llm_ok \in BOOLEAN :
          LET r == GenerateNewsSummary(ai_service, llm_ok) IN
          /\ summary_call' = [verification_verdict |-> verification_result.verdict,
                              verification_score |-> verification_result.score]
          /\ news_summary_obj' = r.value
          /\ pc' = IF r.raised THEN "raised" ELSE "assemble"
    /\ UNCHANGED <<engine_vars, service_vars, ai_service, request, age, subcategory, done, task_result,
                   sentiment_analysis, rag_call, result>>

\* fake_news_agent.py:106-138
AssembleReport ==
    /\ pc = "assemble"
    /\ result' =
           [is_classified_old |-> age.is_old_news,
            news_age_days |-> age.news_age_days,
            subcategory_analysis |-> subcategory.analysis,
            verification_result |-> verification_result,
            news_summary |-> Get(news_summary_obj, "summary_text", "Summary not available."),
            reddit_data |-> reddit_data,
            wikipedia_articles |-> Take(wiki_articles, 3),
            news_data |-> [articles_count |-> Get(news_data, "articles_count", 0),
                           sources_count |-> Get(news_data, "sources_count", 0),
                           sample_articles |-> Take(Get(news_data, "articles", <<>>), 3)],
            sentiment_analysis |-> sentiment_analysis,
            rag_analysis |-> rag_analysis]
    /\ pc' = "done"
    /\ UNCHANGED <<engine_vars, service_vars, ai_service, request, age, subcategory, done, task_result,
                   sentiment_analysis, rag_call, summary_call, news_summary_obj>>

Next ==
    \/ ClassifyAge
    \/ ClassifySubcategories
    \/ SkipSubcategories
    \/ RedditTask
    \/ WikiTask
    \/ NewsTask
    \/ SentimentTask
    \/ GatherReturn
    \/ RagStep
    \/ ScoreStep
    \/ SummaryStep
    \/ AssembleReport

Spec == Init /\ [][Next]_vars

\* ------------------- SpecHang: a run in which an external call may never return
\* The news requests are the only ones awaited under a timeout
\* (news_service.py:55, 109, 163), and NewsTask covers their expiry by the
\* empty result. The Reddit search (reddit_service.py:45-48), the Wikipedia
\* search and fetches (wikipedia_service.py:35-38, 59-67) and the two chain
\* invocations (ai_service.py:328, 429) are awaited with no timeout.
InitHang ==
    /\ Init
    /\ ai_service = AIAnalysisServiceInit("gemini", TRUE, TRUE, TRUE)

\* the executor call of the Reddit or of the Wikipedia collector never returns
CollectorCallHangs ==
    /\ pc = "gather"
    /\ \E c \in {"reddit", "wiki"} :
          /\ c \notin done
          /\ c \notin hung
          /\ hung' = hung \cup {c}
    /\ UNCHANGED <<pc, engine_vars, agent_vars, news_vars, wiki_vars, search_results,
                   analyzer_input, completion_order>>

\* the chain invocation of the fact-check or of the summary never returns
LlmCallHangs ==
    /\ ai_service.openai_available \/ ai_service.gemini_available
    /\ ai_service.has_chains
    /\ \/ pc = "rag" /\ "rag" \notin hung /\ hung' = hung \cup {"rag"}
       \/ pc = "summary" /\ "summary" \notin hung /\ hung' = hung \cup {"summary"}
    /\ UNCHANGED <<pc, engine_vars, agent_vars, news_vars, wiki_vars, search_results,
                   analyzer_input, completion_order>>

NextHang ==
    \/ Next
    \/ CollectorCallHangs
    \/ LlmCallHangs

SpecHang == InitHang /\ [][NextHang]_vars

\* a direct call of the engine: no analyze_news run is in progress
AgentIdle ==
    /\ ServicesIdle
    /\ ai_service = None
    /\ request = None
    /\ age = None
    /\ subcategory = None
    /\ done = {}
    /\ task_result = None
    /\ sentiment_analysis = None
    /\ rag_call = None
    /\ summary_call = None
    /\ news_summary_obj = None
    /\ result = None

\* ------------------------------ SpecScore: direct calls of the scoring engine
InitScore ==
    /\ pc = "score_call"
    /\ reddit_data \in RedditPayloads
    /\ wiki_articles \in {Articles(n) : n \in 0..MaxWiki}
    /\ news_data \in NewsPayloads
    /\ rag_analysis \in RagPayloads
    /\ verification_result = None
    /\ prev_call = None
    /\ AgentIdle

ScoreCall ==
    /\ pc = "score_call"
    /\ verification_result' =
           CalculateVerificationScore(reddit_data, wiki_articles, news_data, rag_analysis)
    /\ pc' = "score_returned"
    /\ UNCHANGED <<reddit_data, wiki_articles, news_data, rag_analysis, prev_call>>
    /\ UNCHANGED <<agent_vars, service_vars>>

NextScore == ScoreCall

SpecScore == InitScore /\ [][NextScore]_vars

\* --------------- SpecMono: a call of the engine repeated with one input raised
MonoRagPayloads ==
    {[raw_analysis |-> "text", factual_score |-> f, is_fake |-> k] :
        f \in FactualScores, k \in BOOLEAN}

MonoNewsPayloads ==
    {[articles_count |-> a, sources_count |-> s, articles |-> <<>>] :
        a \in {0, MaxArticles}, s \in 0..MaxSources}

InitMono ==
    /\ pc = "mono_call"
    /\ reddit_data \in RedditPayloads
    /\ wiki_articles \in {Articles(n) : n \in 0..MaxWiki}
    /\ news_data \in MonoNewsPayloads
    /\ rag_analysis \in MonoRagPayloads
    /\ verification_result = None
    /\ prev_call = None
    /\ AgentIdle

\* the call just made, kept for comparison with the next one
ThisCall ==
    [reddit_data |-> reddit_data, wiki_articles |-> wiki_articles,
     news_data |-> news_data, rag_analysis |-> rag_analysis,
     result |-> verification_result]

MonoCall ==
    /\ pc = "mono_call"
    /\ verification_result' =
           CalculateVerificationScore(reddit_data, wiki_articles, news_data, rag_analysis)
    /\ pc' = "mono_scored"
    /\ UNCHANGED <<reddit_data, wiki_articles, news_data, rag_analysis, prev_call>>
    /\ UNCHANGED <<agent_vars, service_vars>>

IncreaseDiscussionCount ==
    /\ pc = "mono_scored"
    /\ \E n \in (reddit_data.discussion_count + 1)..MaxDiscussions :
          /\ reddit_data' = [reddit_data EXCEPT !.discussion_count = n]
          /\ verification_result' =
                 CalculateVerificationScore(reddit_data', wiki_articles, news_data, rag_analysis)
    /\ prev_call' = ThisCall
    /\ pc' = "mono_rescored"
    /\ UNCHANGED <<wiki_articles, news_data, rag_analysis>>
    /\ UNCHANGED <<agent_vars, service_vars>>

IncreaseSourcesCount ==
    /\ pc = "mono_scored"
    /\ \E n \in (news_data.sources_count + 1)..MaxSources :
          /\ news_data' = [news_data EXCEPT !.sources_count = n]
          /\ verification_result' =
                 CalculateVerificationScore(reddit_data, wiki_articles, news_data', rag_analysis)
    /\ prev_call' = ThisCall
    /\ pc' = "mono_rescored"
    /\ UNCHANGED <<reddit_data, wiki_articles, rag_analysis>>
    /\ UNCHANGED <<agent_vars, service_vars>>

IncreaseFactualScore ==
    /\ pc = "mono_scored"
    /\ \E n \in (rag_analysis.factual_score + 1)..MaxFactual :
          /\ rag_analysis' = [rag_analysis EXCEPT !.factual_score = n]
          /\ verification_result' =
                 CalculateVerificationScore(reddit_data, wiki_articles, news_data, rag_analysis')
    /\ prev_call' = ThisCall
    /\ pc' = "mono_rescored"
    /\ UNCHANGED <<reddit_data, wiki_articles, news_data>>
    /\ UNCHANGED <<agent_vars, service_vars>>

NextMono ==
    \/ MonoCall
    \/ IncreaseDiscussionCount
    \/ IncreaseSourcesCount
    \/ IncreaseFactualScore

SpecMono == InitMono /\ [][NextMono]_vars

\* --------------------------------- SpecNews: one call of search_news, provider
\* by provider
Providers == <<"newsapi", "newsdata", "gnews">>

ProviderIndex(api) == CHOOSE i \in DOMAIN Providers : Providers[i] = api

\* news_service.py:20-26: the configured providers, in the order of the tests
AvailableApis(keys) == SelectSeq(Providers, LAMBDA api : api \in keys)

\* n formatted articles of one provider, from k named sources in turn; the
\* sources of two providers overlap
ProviderArticles(api, n, k) ==
    [i \in 1..n |->
        [title |-> i, source |-> ProviderIndex(api) + ((i - 1) % k), api_source |-> api]]

\* what one provider's endpoint does with the request: the request raises, it
\* does not answer within the 10 s of asyncio.timeout, it answers with a
\* status other than 200, or it answers 200 with a list of articles
ProviderOutcomes(api) ==
    {[kind |-> "exception"], [kind |-> "timeout"], [kind |-> "status", status_code |-> 500]}
        \cup {[kind |-> "ok", status_code |-> 200, articles |-> ProviderArticles(api, n, k)] :
                n \in {0, 2, MaxProviderArticles}, k \in {1, 2}}

\* a provider whose handler is missing: the failed request leaves the coroutine
SearchProvider_NoHandler(has_key, outcome) ==
    IF ~has_key THEN [raised |-> FALSE, value |-> <<>>]
    ELSE IF outcome.kind \in {"exception", "timeout"}
    THEN [raised |-> TRUE, value |-> <<>>]
    ELSE IF outcome.status_code = 200
    THEN [raised |-> FALSE, value |-> outcome.articles]
    ELSE [raised |-> FALSE, value |-> <<>>]

\* news_service.py:30-85 (search_newsapi; search_newsdata 87-139 and
\* search_gnews 141-193 have the same shape): [] without a key, [] when the
\* request raises or times out (the except of line 83), [] for a status other
\* than 200, the formatted articles otherwise
SearchProvider(has_key, outcome) ==
    IF ~has_key THEN [raised |-> FALSE, value |-> <<>>]
    ELSE IF outcome.kind \in {"exception", "timeout"}
    THEN [raised |-> FALSE, value |-> <<>>]
    ELSE IF outcome.status_code = 200
    THEN [raised |-> FALSE, value |-> outcome.articles]
    ELSE [raised |-> FALSE, value |-> <<>>]

\* news_service.py:217-219: all_articles.extend(result) over the results
RECURSIVE Extend(_)
Extend(results) ==
    IF results = <<>> THEN <<>> ELSE Head(results) \o Extend(Tail(results))

\* the engine holds no call
EngineIdle ==
    /\ reddit_data = None
    /\ wiki_articles = None
    /\ news_data = None
    /\ rag_analysis = None
    /\ verification_result = None
    /\ prev_call = None

\* no analyze_news run is in progress
OrchestratorIdle ==
    /\ ai_service = None
    /\ request = None
    /\ age = None
    /\ subcategory = None
    /\ done = {}
    /\ task_result = None
    /\ sentiment_analysis = None
    /\ rag_call = None
    /\ summary_call = None
    /\ news_summary_obj = None
    /\ result = None

InitNews ==
    /\ pc = "news_call"
    /\ \E keys \in SUBSET {Providers[i] : i \in DOMAIN Providers} :
          available_apis = AvailableApis(keys)
    /\ news_tasks = <<>>
    /\ hung = {}
    /\ completion_order = <<>>
    /\ WikiIdle
    /\ RedditIdle
    /\ SentimentIdle
    /\ EngineIdle
    /\ OrchestratorIdle

news_rest == <<reddit_data, wiki_articles, rag_analysis, verification_result, prev_call,
               agent_vars, hung, wiki_vars, search_results, analyzer_input, completion_order>>

\* news_service.py:205-214: one task per available provider, in the fixed order
SearchNewsStart ==
    /\ pc = "news_call"
    /\ news_tasks' = [i \in DOMAIN available_apis |->
                          [api |-> available_apis[i], status |-> "pending"]]
    /\ pc' = "news_gather"
    /\ UNCHANGED <<news_data, available_apis, news_rest>>

\* one provider coroutine runs to its end, in any order among the tasks
ProviderCompletes ==
    /\ pc = "news_gather"
    /\ \E i \in DOMAIN news_tasks :
          /\ news_tasks[i].status = "pending"
          /\ \E outcome \in ProviderOutcomes(news_tasks[i].api) :
                LET r == SearchProvider(TRUE, outcome) IN
                news_tasks' = [news_tasks EXCEPT ![i] =
                                  [api |-> news_tasks[i].api, status |-> "done",
                                   outcome |-> outcome, raised |-> r.raised,
                                   value |-> r.value]]
    /\ UNCHANGED <<pc, news_data, available_apis, news_rest>>

\* news_service.py:214-229: gather returns the results in task order, or lets
\* the exception of a task through
SearchNewsReturn ==
    /\ pc = "news_gather"
    /\ \A i \in DOMAIN news_tasks : news_tasks[i].status = "done"
    /\ IF \E i \in DOMAIN news_tasks : news_tasks[i].raised
       THEN /\ pc' = "news_raised"
            /\ UNCHANGED news_data
       ELSE LET results == [i \in DOMAIN news_tasks |-> news_tasks[i].value] IN
            /\ news_data' = SearchNews(Extend(results))
            /\ pc' = "news_returned"
    /\ UNCHANGED <<news_tasks, available_apis, news_rest>>

NextNews ==
    \/ SearchNewsStart
    \/ ProviderCompletes
    \/ SearchNewsReturn

SpecNews == InitNews /\ [][NextNews]_vars

\* ------------------------- SpecWiki: one call of find_relevant_articles, fetch
\* by fetch
\* config.py:31, the default
MAX_WIKIPEDIA_RETRIES == 3

\* wikipedia_service.py:21, the default of max_results
SearchMaxResults == 5

InitWiki ==
    /\ pc = "wiki_call"
    /\ wikipedia_robust \in BOOLEAN
    /\ article_titles = <<>>
    /\ candidate = 0
    /\ articles = <<>>
    /\ title = None
    /\ retry_count = 0
    /\ waits = <<>>
    /\ last_fetch = None
    /\ hung = {}
    /\ completion_order = <<>>
    /\ NewsIdle
    /\ RedditIdle
    /\ SentimentIdle
    /\ EngineIdle
    /\ OrchestratorIdle

wiki_rest == <<reddit_data, news_data, rag_analysis, verification_result, prev_call,
               agent_vars, hung, news_vars, wikipedia_robust, search_results, analyzer_input,
               completion_order>>

\* what the search meets: the request raises, or it answers with up to
\* max_results titles
SearchOutcomes ==
    {[kind |-> "raises"]}
        \cup {[kind |-> "titles", titles |-> [i \in 1..n |-> i]] : n \in 0..SearchMaxResults}

\* wikipedia_service.py:21-42: [] when the search raises
SearchWikipediaTitles(outcome) ==
    IF outcome.kind = "raises" THEN <<>> ELSE outcome.titles

\* wikipedia_service.py:69-75: the article built from a fetched page
Article(t) ==
    [title |-> t, summary |-> "summary", content |-> "content", url |-> "url",
     last_edited |-> "revision_id"]

\* wikipedia_service.py:112-113
SearchWikipedia ==
    /\ pc = "wiki_call"
    /\ \E outcome \in SearchOutcomes : article_titles' = SearchWikipediaTitles(outcome)
    /\ articles' = <<>>
    /\ candidate' = 0
    /\ pc' = "wiki_for"
    /\ UNCHANGED <<wiki_articles, title, retry_count, waits, last_fetch, wiki_rest>>

\* wikipedia_service.py:115-116, 55: the loop takes the next title and calls
\* get_article_content
GetArticleContent ==
    /\ pc = "wiki_for"
    /\ candidate < Len(article_titles)
    /\ candidate' = candidate + 1
    /\ title' = [candidate |-> article_titles[candidate + 1], hop |-> 0]
    /\ retry_count' = 0
    /\ waits' = <<>>
    /\ last_fetch' = None
    /\ pc' = "wiki_fetch"
    /\ UNCHANGED <<wiki_articles, article_titles, articles, wiki_rest>>

\* wikipedia_service.py:58-75, 117-118: page and summary arrive
PageFetched ==
    /\ pc = "wiki_fetch"
    /\ articles' = Append(articles, Article(title))
    /\ last_fetch' = [kind |-> "ok"]
    /\ pc' = "wiki_for"
    /\ UNCHANGED <<wiki_articles, article_titles, candidate, title, retry_count, waits,
                   wiki_rest>>

\* wikipedia_service.py:77-84: in robust mode with an alternative the title
\* becomes the first option and the loop runs again, retry_count as it was;
\* otherwise the candidate is given up. The first option is a title not met
\* before for this candidate (hop + 1, up to MaxHops) or one met before.
Disambiguation ==
    /\ pc = "wiki_fetch"
    /\ \E has_options \in BOOLEAN :
          /\ last_fetch' = [kind |-> "disambiguation", has_options |-> has_options]
          /\ IF wikipedia_robust /\ has_options
             THEN /\ \E h \in 0..Min(title.hop + 1, MaxHops) :
                        title' = [title EXCEPT !.hop = h]
                  /\ pc' = "wiki_fetch"
             ELSE /\ pc' = "wiki_for"
                  /\ UNCHANGED title
    /\ UNCHANGED <<wiki_articles, article_titles, candidate, articles, retry_count, waits,
                   wiki_rest>>

\* the not-found handler taken for a transient failure: the fetch is made again
PageError_Retried ==
    /\ pc = "wiki_fetch"
    /\ last_fetch' = [kind |-> "not_found"]
    /\ retry_count' = retry_count + 1
    /\ pc' = IF retry_count' < MAX_WIKIPEDIA_RETRIES THEN "wiki_fetch" ELSE "wiki_for"
    /\ UNCHANGED <<wiki_articles, article_titles, candidate, articles, title,
                   waits, wiki_rest>>

\* wikipedia_service.py:86-88
PageError ==
    /\ pc = "wiki_fetch"
    /\ last_fetch' = [kind |-> "not_found"]
    /\ pc' = "wiki_for"
    /\ UNCHANGED <<wiki_articles, article_titles, candidate, articles, title, retry_count,
                   waits, wiki_rest>>

\* a sleep after every failed attempt, the last one too
TransientError_SleepsAfterLast ==
    /\ pc = "wiki_fetch"
    /\ last_fetch' = [kind |-> "error"]
    /\ retry_count' = retry_count + 1
    /\ waits' = Append(waits, 2 ^ retry_count')
    /\ pc' = IF retry_count' < MAX_WIKIPEDIA_RETRIES THEN "wiki_fetch" ELSE "wiki_for"
    /\ UNCHANGED <<wiki_articles, article_titles, candidate, articles, title, wiki_rest>>

\* wikipedia_service.py:90-98
TransientError ==
    /\ pc = "wiki_fetch"
    /\ last_fetch' = [kind |-> "error"]
    /\ retry_count' = retry_count + 1
    /\ IF retry_count' < MAX_WIKIPEDIA_RETRIES
       THEN /\ waits' = Append(waits, 2 ^ retry_count')
            /\ pc' = "wiki_fetch"
       ELSE /\ pc' = "wiki_for"
            /\ UNCHANGED waits
    /\ UNCHANGED <<wiki_articles, article_titles, candidate, articles, title, wiki_rest>>

\* wikipedia_service.py:120-121
FindRelevantArticlesReturn ==
    /\ pc = "wiki_for"
    /\ candidate = Len(article_titles)
    /\ wiki_articles' = articles
    /\ pc' = "wiki_returned"
    /\ UNCHANGED <<article_titles, candidate, articles, title, retry_count, waits,
                   last_fetch, wiki_rest>>

NextWiki ==
    \/ SearchWikipedia
    \/ GetArticleContent
    \/ PageFetched
    \/ Disambiguation
    \/ PageError
    \/ TransientError
    \/ FindRelevantArticlesReturn

SpecWiki == InitWiki /\ [][NextWiki]_vars

\* the event loop keeps resuming the coroutine: whenever find_relevant_articles
\* has a step to take, it takes one
SpecWikiFair == SpecWiki /\ WF_vars(NextWiki)

\* ------------------------------- SpecReddit: direct calls of analyze_credibility
\* reddit_service.py:52-63: a formatted post; its title is its rank in the search
Post(i, subreddit, score) ==
    [title |-> i, subreddit |-> subreddit, score |-> score, num_comments |-> score + 1,
     permalink |-> i]

\* every list of up to 3 posts from 2 communities with scores 0..2, and longer
\* lists of up to MaxPosts posts spread over up to 7 communities
ResultLists ==
    UNION {[1..n -> {[subreddit |-> sr, score |-> sc] : sr \in 1..2, sc \in 0..2}] :
              n \in 0..3}

ShortLists == {[i \in DOMAIN l |-> Post(i, l[i].subreddit, l[i].score)] : l \in ResultLists}

LongLists ==
    {[i \in 1..n |-> Post(i, ((i * a) % m) + 1, (i * b) % 3)] :
        n \in 4..MaxPosts, m \in 1..7, a \in {1, 3}, b \in {1, 2}}

\* what the search meets: the request raises, or it answers with posts
RedditSearchOutcomes ==
    {[kind |-> "raises"]} \cup {[kind |-> "posts", posts |-> l] : l \in ShortLists \cup LongLists}

\* reddit_service.py:42-71: [] when the search raises
SearchReddit(outcome) ==
    IF outcome.kind = "raises" THEN <<>> ELSE outcome.posts

\* sorted(..., key=..., reverse=True) on a list given with its keys:
\* decreasing by key, equal keys in their original order
RECURSIVE SortedReverse(_)
SortedReverse(keyed) ==
    IF keyed = <<>> THEN <<>>
    ELSE LET sorted_rest == SortedReverse(SubSeq(keyed, 1, Len(keyed) - 1))
             x == keyed[Len(keyed)]
             \* x goes after every element whose key is not smaller
             before == SelectSeq(sorted_rest, LAMBDA y : y.key >= x.key)
             after == SelectSeq(sorted_rest, LAMBDA y : y.key < x.key)
         IN  before \o <<x>> \o after

\* reddit_service.py:149-153
SortedByCount(counts) ==
    LET sorted == SortedReverse([i \in DOMAIN counts |->
                                    [key |-> counts[i].count, item |-> counts[i]]])
    IN  [i \in DOMAIN sorted |-> sorted[i].item]

\* reddit_service.py:169
SortedByScore(posts) ==
    LET sorted == SortedReverse([i \in DOMAIN posts |->
                                    [key |-> posts[i].score, item |-> posts[i]]])
    IN  [i \in DOMAIN sorted |-> sorted[i].item]

\* reddit_service.py:141-147: the communities in the order they first appear,
\* each with its number of posts
RECURSIVE SubredditCounts(_)
SubredditCounts(posts) ==
    IF posts = <<>> THEN <<>>
    ELSE LET rest == SubredditCounts(SubSeq(posts, 1, Len(posts) - 1))
             sr == posts[Len(posts)].subreddit
         IN  IF \E i \in DOMAIN rest : rest[i].subreddit = sr
             THEN [i \in DOMAIN rest |->
                      IF rest[i].subreddit = sr
                      THEN [subreddit |-> sr, count |-> rest[i].count + 1]
                      ELSE rest[i]]
             ELSE Append(rest, [subreddit |-> sr, count |-> 1])

\* sum(...) of a list of numbers
RECURSIVE SumOf(_)
SumOf(numbers) ==
    IF numbers = <<>> THEN 0 ELSE Head(numbers) + SumOf(Tail(numbers))

\* reddit_service.py:166-169
SamplePost(post) ==
    [title |-> post.title, subreddit |-> post.subreddit, score |-> post.score,
     comments |-> post.num_comments, url |-> post.permalink]

\* the list of communities returned whole, without the cut to 5
AnalyzeCredibilityPayload_NoCap(posts) ==
    IF posts = <<>>
    THEN [reddit_results |-> FALSE, discussion_count |-> 0,
          top_sources |-> <<>>, sentiment_summary |-> "No Reddit discussions found"]
    ELSE LET sample == Take(SortedByScore(posts), 3) IN
         [reddit_results |-> TRUE,
          discussion_count |-> Len(posts),
          average_score |-> [num |-> SumOf([i \in DOMAIN posts |-> posts[i].score]), den |-> Len(posts)],
          average_comments |->
              [num |-> SumOf([i \in DOMAIN posts |-> posts[i].num_comments]),
               den |-> Len(posts)],
          top_sources |-> SortedByCount(SubredditCounts(posts)),
          sample_posts |-> [i \in DOMAIN sample |-> SamplePost(sample[i])]]

\* reddit_service.py:125-171, on the posts the search returned; an average
\* is kept as its numerator and denominator
AnalyzeCredibilityPayload(posts) ==
    IF posts = <<>>
    THEN [reddit_results |-> FALSE, discussion_count |-> 0,
          top_sources |-> <<>>, sentiment_summary |-> "No Reddit discussions found"]
    ELSE LET sample == Take(SortedByScore(posts), 3) IN
         [reddit_results |-> TRUE,
          discussion_count |-> Len(posts),
          average_score |-> [num |-> SumOf([i \in DOMAIN posts |-> posts[i].score]), den |-> Len(posts)],
          average_comments |->
              [num |-> SumOf([i \in DOMAIN posts |-> posts[i].num_comments]),
               den |-> Len(posts)],
          top_sources |-> Take(SortedByCount(SubredditCounts(posts)), 5),
          sample_posts |-> [i \in DOMAIN sample |-> SamplePost(sample[i])]]

InitReddit ==
    /\ pc = "reddit_call"
    /\ search_results = <<>>
    /\ hung = {}
    /\ completion_order = <<>>
    /\ NewsIdle
    /\ WikiIdle
    /\ SentimentIdle
    /\ EngineIdle
    /\ OrchestratorIdle

reddit_rest == <<wiki_articles, news_data, rag_analysis, verification_result, prev_call,
                 agent_vars, hung, news_vars, wiki_vars, analyzer_input, completion_order>>

\* reddit_service.py:125
SearchRedditCall ==
    /\ pc = "reddit_call"
    /\ \E outcome \in RedditSearchOutcomes : search_results' = SearchReddit(outcome)
    /\ pc' = "reddit_searched"
    /\ UNCHANGED <<reddit_data, reddit_rest>>

\* reddit_service.py:127-171
AnalyzeCredibilityReturn ==
    /\ pc = "reddit_searched"
    /\ reddit_data' = AnalyzeCredibilityPayload(search_results)
    /\ pc' = "reddit_returned"
    /\ UNCHANGED <<search_results, reddit_rest>>

NextReddit ==
    \/ SearchRedditCall
    \/ AnalyzeCredibilityReturn

SpecReddit == InitReddit /\ [][NextReddit]_vars

\* ------------------------------- SpecSentiment: direct calls of analyze_sentiment
\* a text of n characters
TextOf(n) == [i \in 1..n |-> i % 7]

TextLengths == {0, 1, 2, 3, 100, 256, 510, 511, 512, 513, 514, MaxTextLen}

\* a pipeline handed the whole text
TruncatedText_Whole(text) == text

\* ai_service.py:175: text[:512]
TruncatedText(text) == SubSeq(text, 1, Min(512, Len(text)))

InitSentiment ==
    /\ pc = "sentiment_call"
    /\ ai_service \in AIServiceStates
    /\ \E n \in TextLengths : request = [text |-> TextOf(n)]
    /\ age = None
    /\ subcategory = None
    /\ done = {}
    /\ task_result = None
    /\ sentiment_analysis = None
    /\ rag_call = None
    /\ summary_call = None
    /\ news_summary_obj = None
    /\ result = None
    /\ EngineIdle
    /\ ServicesIdle

\* ai_service.py:170-191: the pipeline is called, with the truncated text,
\* only when there is one
AnalyzeSentimentCall ==
    /\ pc = "sentiment_call"
    /\ \E inference_ok \in BOOLEAN :
          sentiment_analysis' = AnalyzeSentiment(ai_service, inference_ok)
    /\ analyzer_input' = IF ai_service.sentiment_analyzer
                         THEN <<TruncatedText(request.text)>>
                         ELSE <<>>
    /\ pc' = "sentiment_returned"
    /\ UNCHANGED <<engine_vars, ai_service, request, age, subcategory, done, task_result,
                   rag_call, summary_call, news_summary_obj, result, hung, news_vars,
                   wiki_vars, search_results, completion_order>>

NextSentiment == AnalyzeSentimentCall

SpecSentiment == InitSentiment /\ [][NextSentiment]_vars

\* ------------- SpecOrder: the fork-join of analyze_news with the completion
\* order of its tasks, the news providers inside search_news included
\* The run is taken from the point where the tasks are created
\* (fake_news_agent.py:71-76) for an article without a date, with no
\* language-model provider and all three news providers configured.
InitOrder ==
    /\ pc = "gather"
    /\ ai_service = AIAnalysisServiceInit("gemini", FALSE, TRUE, TRUE)
    /\ request = [publication_date |-> [kind |-> "none"], content |-> "other"]
    /\ age = DetermineAge(request.publication_date)
    /\ subcategory = [analysis |-> None, info_for_rag |-> RecentInfoForRag]
    /\ done = {}
    /\ task_result = [c \in Collectors |-> None]
    /\ completion_order = <<>>
    /\ available_apis = Providers
    /\ news_tasks = [i \in DOMAIN Providers |-> [api |-> Providers[i], status |-> "pending"]]
    /\ sentiment_analysis = None
    /\ rag_call = None
    /\ summary_call = None
    /\ news_summary_obj = None
    /\ result = None
    /\ hung = {}
    /\ EngineIdle
    /\ WikiIdle
    /\ RedditIdle
    /\ SentimentIdle

\* a first-stage task completes with value v; its place in the order is kept
CompleteInOrder(c, v) ==
    /\ done' = done \cup {c}
    /\ task_result' = [task_result EXCEPT ![c] = v]
    /\ completion_order' = Append(completion_order, c)
    /\ UNCHANGED <<pc, engine_vars, ai_service, request, age, subcategory,
                   sentiment_analysis, rag_call, summary_call, news_summary_obj, result,
                   hung, news_vars, wiki_vars, search_results, analyzer_input>>

\* fake_news_agent.py:72
RedditCompletes ==
    /\ pc = "gather"
    /\ "reddit" \notin done
    /\ \E n \in {0, 11} : CompleteInOrder("reddit", AnalyzeCredibility(n))

\* fake_news_agent.py:73
WikiCompletes ==
    /\ pc = "gather"
    /\ "wiki" \notin done
    /\ \E n \in {0, MaxWiki} : CompleteInOrder("wiki", Articles(n))

\* fake_news_agent.py:75
SentimentCompletes ==
    /\ pc = "gather"
    /\ "sentiment" \notin done
    /\ CompleteInOrder("sentiment", AnalyzeSentiment(ai_service, TRUE))

\* news_service.py:205-214: a provider coroutine of search_news completes
ProviderCompletesInRun ==
    /\ pc = "gather"
    /\ \E i \in DOMAIN news_tasks :
          /\ news_tasks[i].status = "pending"
          /\ \E outcome \in {[kind |-> "exception"],
                               [kind |-> "ok", status_code |-> 200,
                                articles |-> ProviderArticles(news_tasks[i].api, 2, 1)]} :
                LET r == SearchProvider(TRUE, outcome) IN
                news_tasks' = [news_tasks EXCEPT ![i] =
                                  [api |-> news_tasks[i].api, status |-> "done",
                                   outcome |-> outcome, raised |-> r.raised,
                                   value |-> r.value]]
          /\ completion_order' = Append(completion_order, news_tasks[i].api)
    /\ UNCHANGED <<pc, engine_vars, agent_vars, hung, available_apis, wiki_vars,
                   search_results, analyzer_input>>

\* the provider results merged in the order the providers completed
NewsCompletes_AsCompleted ==
    /\ pc = "gather"
    /\ "news" \notin done
    /\ \A i \in DOMAIN news_tasks : news_tasks[i].status = "done"
    /\ LET finished == SelectSeq(completion_order,
                                  LAMBDA c : \E i \in DOMAIN news_tasks : news_tasks[i].api = c)
           results_seq == [k \in DOMAIN finished |->
                              news_tasks[ProviderIndex(finished[k])].value]
       IN  CompleteInOrder("news", SearchNews(Extend(results_seq)))

\* news_service.py:214-229, fake_news_agent.py:74: search_news returns once
\* its providers are complete, merging their results in task order
NewsCompletes ==
    /\ pc = "gather"
    /\ "news" \notin done
    /\ \A i \in DOMAIN news_tasks : news_tasks[i].status = "done"
    /\ LET results_seq == [i \in DOMAIN news_tasks |-> news_tasks[i].value] IN
       CompleteInOrder("news", SearchNews(Extend(results_seq)))

NextOrder ==
    \/ RedditCompletes
    \/ WikiCompletes
    \/ SentimentCompletes
    \/ ProviderCompletesInRun
    \/ NewsCompletes
    \/ GatherReturn
    \/ RagStep
    \/ ScoreStep
    \/ SummaryStep
    \/ AssembleReport

SpecOrder == InitOrder /\ [][NextOrder]_vars

\* ------------------------------------------------ claims on the scoring engine
\* the inputs of the call, as the engine reads them
Scored == pc = "score_returned"
AiIsFake == Get(rag_analysis, "is_fake", FALSE)
AiConfidence == Get(rag_analysis, "confidence", 70)
AiFactualScore == Get(rag_analysis, "factual_score", 0)
DiscussionCount == Get(reddit_data, "discussion_count", 0)
SourcesCount == Get(news_data, "sources_count", 0)
ArticlesCount == Get(news_data, "articles_count", 0)

\* C1: the verdict is FAKE exactly when (AI says fake and total < 60) or (AI
\* says not-fake and total < 40), and REAL otherwise; so AI-fake with total 65
\* is REAL, AI-fake with 55 is FAKE, AI-not-fake with 35 is FAKE, AI-not-fake
\* with 45 is REAL.
C1_VerdictRule ==
    Scored =>
        LET total == verification_result.score
            verdict == verification_result.verdict
        IN  /\ verdict \in {"FAKE", "REAL"}
            /\ (verdict = "FAKE") <=>
                   ((AiIsFake /\ total < 60) \/ (~AiIsFake /\ total < 40))
            /\ (AiIsFake /\ total = 65) => verdict = "REAL"
            /\ (AiIsFake /\ total = 55) => verdict = "FAKE"
            /\ (~AiIsFake /\ total = 35) => verdict = "FAKE"
            /\ (~AiIsFake /\ total = 45) => verdict = "REAL"

C1_Witness ==
    /\ Scored
    /\ AiIsFake
    /\ verification_result.score = 65
    /\ verification_result.verdict = "REAL"

\* C2: with non-negative counts and factual_score in [0,100], score is the sum
\* of the three sub-scores, score is in [0,100], source_credibility and
\* content_consistency are in [0,30] and fact_verification is in [0,40].
C2_ScoreBounds ==
    (/\ Scored
     /\ DiscussionCount >= 0 /\ SourcesCount >= 0 /\ ArticlesCount >= 0
     /\ AiFactualScore >= 0 /\ AiFactualScore <= 100) =>
        LET r == verification_result IN
        /\ r.score = r.source_credibility + r.content_consistency + r.fact_verification
        /\ r.score \in 0..100
        /\ r.source_credibility \in 0..30
        /\ r.content_consistency \in 0..30
        /\ r.fact_verification \in 0..40

C2_Witness ==
    /\ Scored
    /\ SourcesCount > 5
    /\ verification_result.source_credibility = 30
    /\ verification_result.content_consistency = 30
    /\ verification_result.fact_verification = 40
    /\ verification_result.score = 100

\* C3: the confidence follows the four-way rule in order (agreement with the
\* AI flag: max(AI confidence, 75); total > 70 and not fake: max(total, AI
\* confidence); total < 30 and fake: max(100 - total, AI confidence);
\* otherwise min(AI confidence, 60)), then is clamped to [0,100].
C3_ConfidenceRule ==
    Scored =>
        LET total == verification_result.score
            fake == verification_result.is_fake
            rule == IF fake = AiIsFake THEN Max(AiConfidence, 75)
                    ELSE IF total > 70 /\ ~fake THEN Max(total, AiConfidence)
                    ELSE IF total < 30 /\ fake THEN Max(100 - total, AiConfidence)
                    ELSE Min(AiConfidence, 60)
        IN  verification_result.confidence =
                (IF rule > 100 THEN 100 ELSE IF rule < 0 THEN 0 ELSE rule)

\* the AI says fake, the total overrides it, and the total is the confidence
C3_Witness ==
    /\ Scored
    /\ AiIsFake /\ ~verification_result.is_fake
    /\ verification_result.score > 70
    /\ AiConfidence < verification_result.score
    /\ verification_result.confidence = verification_result.score

\* C4: for every input, also an AI confidence that is negative, above 100 or
\* missing, the returned confidence is an integer in [0,100].
C4_ConfidenceClamped ==
    Scored => verification_result.confidence \in 0..100

\* a negative AI confidence on the disagreement branch is clamped up to 0
C4_Witness ==
    /\ Scored
    /\ AiConfidence < 0
    /\ verification_result.is_fake # AiIsFake
    /\ verification_result.confidence = 0

\* The scenario of C5: nothing found by any collector, the AI gives
\* factual_score 20 and says fake, with a confidence in [0,100].
C5_Scenario ==
    /\ Scored
    /\ DiscussionCount = 0 /\ SourcesCount = 0 /\ ArticlesCount = 0
    /\ Len(wiki_articles) = 0
    /\ "factual_score" \in DOMAIN rag_analysis /\ rag_analysis.factual_score = 20
    /\ "is_fake" \in DOMAIN rag_analysis /\ rag_analysis.is_fake
    /\ "confidence" \in DOMAIN rag_analysis
    /\ rag_analysis.confidence \in 0..100

C5_SubScores ==
    /\ verification_result.source_credibility = 0
    /\ verification_result.content_consistency = 0
    /\ verification_result.fact_verification = 6
    /\ verification_result.score = 6
    /\ verification_result.verdict = "FAKE"

\* C5 as stated: in the scenario the sub-scores are 0, 0, 6, the score is 6,
\* the verdict is FAKE and the confidence is max(94, AI confidence).
C5_Original ==
    C5_Scenario =>
        /\ C5_SubScores
        /\ verification_result.confidence = Max(94, rag_analysis.confidence)

\* C5 as amended: in the scenario the sub-scores are 0, 0, 6, the score is 6,
\* the verdict is FAKE and the confidence is max(75, AI confidence), because
\* the verdict agrees with the AI flag and the agreement branch comes first.
C5_Amended ==
    C5_Scenario =>
        /\ C5_SubScores
        /\ verification_result.confidence = Max(75, rag_analysis.confidence)

C5_Witness ==
    /\ C5_Scenario
    /\ rag_analysis.confidence = 50
    /\ verification_result.confidence = 75

\* C6: with a has-results discussion payload of discussion_count 25, 4 news
\* sources, 6 news articles, 3 reference articles, factual_score 90 and AI
\* not-fake, the sub-scores are 27, 30 and 37, the score is 94 and the verdict
\* is REAL.
C6_Scenario ==
    /\ Scored
    /\ Get(reddit_data, "reddit_results", FALSE)
    /\ DiscussionCount = 25 /\ SourcesCount = 4 /\ ArticlesCount = 6
    /\ Len(wiki_articles) = 3
    /\ "factual_score" \in DOMAIN rag_analysis /\ rag_analysis.factual_score = 90
    /\ "is_fake" \in DOMAIN rag_analysis /\ ~rag_analysis.is_fake

C6_HighCorroboration ==
    C6_Scenario =>
        /\ verification_result.source_credibility = 27
        /\ verification_result.content_consistency = 30
        /\ verification_result.fact_verification = 37
        /\ verification_result.score = 94
        /\ verification_result.verdict = "REAL"

C6_Witness == C6_Scenario /\ verification_result.score = 94

\* C7: the sub-scores are monotone: between two calls that differ only in a
\* larger discussion_count, or only in a larger sources_count,
\* source_credibility does not decrease; between two calls that differ only in
\* a larger factual_score, fact_verification does not decrease.
C7_Monotone ==
    pc = "mono_rescored" =>
        LET before == prev_call.result
            after == verification_result
        IN  /\ (/\ prev_call.news_data = news_data
                /\ prev_call.reddit_data.reddit_results = reddit_data.reddit_results
                /\ prev_call.reddit_data.discussion_count <= reddit_data.discussion_count)
               => before.source_credibility <= after.source_credibility
            /\ (/\ prev_call.reddit_data = reddit_data
                /\ prev_call.news_data.sources_count <= news_data.sources_count)
               => before.source_credibility <= after.source_credibility
            /\ (/\ prev_call.wiki_articles = wiki_articles
                /\ prev_call.rag_analysis.factual_score <= rag_analysis.factual_score)
               => before.fact_verification <= after.fact_verification

\* a larger discussion_count crossed a rung and raised source_credibility
C7_Witness ==
    /\ pc = "mono_rescored"
    /\ prev_call.news_data = news_data
    /\ prev_call.reddit_data.discussion_count < reddit_data.discussion_count
    /\ prev_call.result.source_credibility < verification_result.source_credibility

NoProvider == ~(ai_service.openai_available \/ ai_service.gemini_available)

\* C10: with no language-model provider, analyze_news_with_rag returns an
\* explicit error payload and generate_news_summary an explicit unavailable
\* payload, neither raises, and analyze_news completes with a report whose
\* fact_verification is the reference-article tier alone (factual_score read
\* as 0, is_fake as false, confidence as 70).
C10_NoProviderDegrades ==
    NoProvider =>
        /\ pc # "raised"
        /\ pc # "done" => ENABLED Next
        /\ pc \in {"score", "summary", "assemble", "done"} =>
               DOMAIN rag_analysis = {"error"}
        /\ pc \in {"summary", "assemble", "done"} =>
               LET r == verification_result
                   n == Len(wiki_articles)
                   agree == ~r.is_fake
               IN  /\ r.fact_verification =
                          (IF n >= 3 THEN 10 ELSE IF n >= 1 THEN 5 ELSE 0)
                   /\ r.debug_rag_factual_score = 0
                   /\ r.debug_rag_is_fake = FALSE
                   /\ r.confidence =
                          (IF agree THEN 75
                           ELSE IF r.score < 30 THEN 100 - r.score
                           ELSE 60)
        /\ pc \in {"assemble", "done"} =>
               news_summary_obj = [summary_text |-> "Summarization service not available."]
        /\ pc = "done" =>
               /\ result.verification_result = verification_result
               /\ result.rag_analysis = rag_analysis
               /\ result.news_summary = "Summarization service not available."

C10_Witness ==
    /\ pc = "done"
    /\ NoProvider
    /\ Len(wiki_articles) = 3
    /\ result.verification_result.fact_verification = 10
    /\ result.verification_result.score > 10

\* C11: in every state the AI service can be in after construction, also when
\* initialize_models failed before the chains were built while an API key is
\* configured, analyze_sentiment, analyze_news_with_rag and
\* generate_news_summary return a payload and none raises to the orchestrator.
C11_ServiceNeverRaises == pc # "raised"

\* the provider is configured and its chains were built
ProviderReady ==
    /\ ai_service.openai_available \/ ai_service.gemini_available
    /\ ai_service.has_chains

AfterRag == pc \in {"score", "summary", "assemble", "done"}
AfterScore == pc \in {"summary", "assemble", "done"}

\* C12: with a working provider, for every response text (a heading without
\* its colon, a score that is no number, an empty response) and for a model
\* call that raises, analyze_news_with_rag returns a payload (the parsed
\* fields with the raw text, or an error payload) and does not raise, and
\* analyze_news goes on to return a report that carries that payload.
C12_ParseNeverRaises ==
    ProviderReady =>
        /\ pc # "raised"
        /\ pc # "done" => ENABLED Next
        /\ AfterRag =>
               \/ DOMAIN rag_analysis = {"error"}
               \/ /\ "raw_analysis" \in DOMAIN rag_analysis
                  /\ DOMAIN rag_analysis \subseteq
                         {"raw_analysis", "factual_score", "verdict", "is_fake", "confidence"}
        /\ pc = "done" => result.rag_analysis = rag_analysis

\* a report was returned although the score heading had no colon
C12_Witness ==
    /\ pc = "done"
    /\ ProviderReady
    /\ "raw_analysis" \in DOMAIN rag_analysis
    /\ rag_analysis.raw_analysis.score.kind = "nocolon"
    /\ "factual_score" \notin DOMAIN rag_analysis
    /\ result.verification_result.verdict \in {"FAKE", "REAL"}

\* C13: when a field cannot be extracted from the response, the judgment the
\* scoring uses takes the default factual_score 50 and is_fake by the
\* presence of the keywords in the verdict the response states.
C13_DocumentedDefaults ==
    (AfterScore /\ ProviderReady /\ "raw_analysis" \in DOMAIN rag_analysis) =>
        LET response == rag_analysis.raw_analysis IN
        /\ "factual_score" \notin DOMAIN rag_analysis =>
               verification_result.debug_rag_factual_score = 50
        /\ response.verdict.kind = "text" =>
               verification_result.debug_rag_is_fake =
                   (Contains(response.verdict.text, "fake")
                        \/ Contains(response.verdict.text, "misleading"))

\* C14: for every response text and every collector output, the report has
\* verification_result.score in [0,100] and fact_verification in [0,40], and
\* the factual_score and confidence extracted are integers in [0,100].
C14_ReportRanges ==
    AfterScore =>
        /\ verification_result.score \in 0..100
        /\ verification_result.fact_verification \in 0..40
        /\ "factual_score" \in DOMAIN rag_analysis =>
               rag_analysis.factual_score \in 0..100
        /\ "confidence" \in DOMAIN rag_analysis =>
               rag_analysis.confidence \in 0..100

\* C17: in every run of analyze_news the fact-check call starts only after
\* all four first-stage collectors have completed and is given their reference
\* and news articles; scoring happens only after the fact-check returned; the
\* summary call happens only after scoring and receives the engine's verdict
\* and score; the report is assembled last.
C17_StepOrder ==
    /\ rag_call # None =>
           /\ done = Collectors
           /\ rag_call.wiki_data = task_result["wiki"]
           /\ rag_call.news_data = Get(task_result["news"], "articles", <<>>)
    /\ verification_result # None =>
           /\ rag_call # None
           /\ rag_analysis # None
    /\ summary_call # None =>
           /\ verification_result # None
           /\ summary_call.verification_verdict = verification_result.verdict
           /\ summary_call.verification_score = verification_result.score
    /\ result # None =>
           /\ pc = "done"
           /\ summary_call # None
           /\ news_summary_obj # None
           /\ result.verification_result = verification_result

C17_Witness ==
    /\ pc = "done"
    /\ result # None
    /\ Len(rag_call.wiki_data) = MaxWiki
    /\ Len(rag_call.news_data) = MaxArticles
    /\ summary_call.verification_verdict = "FAKE"

\* C18: the article is OLD exactly when a publication date is supplied,
\* parses as YYYY-MM-DD and its age is strictly more than 180 days; the
\* subcategory pre-step runs exactly when the article is OLD, before any
\* collector, and its output is the hint given to the fact-check call; an age
\* of exactly 180 days, a missing date and an unparsable date give RECENT
\* with no pre-step, and the classification never fails the run.
C18_AgeBranch ==
    LET date == request.publication_date
        old == date.kind = "date" /\ date.age_days > 180
    IN  /\ pc # "classify_age" => age # None
        /\ age # None => (age.is_old_news <=> old)
        /\ done # {} => subcategory # None
        /\ subcategory # None =>
               IF old
               THEN subcategory.analysis = ClassifyNewsSubcategoriesHf(request.content)
               ELSE subcategory.analysis = None
        /\ rag_call # None =>
               IF old
               THEN /\ rag_call.subcategory_info.primary =
                           subcategory.analysis.primary_subcategory
                    /\ rag_call.subcategory_info.secondary =
                           subcategory.analysis.secondary_subcategory
                    /\ rag_call.subcategory_info.confidence =
                           subcategory.analysis.confidence
               ELSE rag_call.subcategory_info = RecentInfoForRag
        /\ pc = "done" =>
               /\ result.is_classified_old = old
               /\ result.subcategory_analysis = subcategory.analysis

\* an article of 181 days went through the pre-step and its output was the hint
C18_Witness ==
    /\ pc = "done"
    /\ request.publication_date.kind = "date"
    /\ request.publication_date.age_days = 181
    /\ result.is_classified_old
    /\ result.subcategory_analysis.primary_subcategory = "Politics"
    /\ rag_call.subcategory_info.primary = "Politics"

\* ------------------------------------------------ claims on the news collector
\* the articles of the providers that did not fail, in provider order
OkArticles ==
    Extend([i \in DOMAIN news_tasks |->
               IF news_tasks[i].outcome.kind = "ok"
               THEN news_tasks[i].outcome.articles ELSE <<>>])

\* C15: for every set of providers whose request fails (by an exception, a
\* timeout or a status other than 200), search_news does not raise and returns
\* exactly the articles, articles_count and sources_count that the providers
\* that did not fail produce.
C15_ProviderIsolation ==
    /\ pc # "news_raised"
    /\ pc = "news_returned" =>
           /\ news_data.articles_count = Len(OkArticles)
           /\ news_data.sources_count =
                  Cardinality({OkArticles[i].source : i \in DOMAIN OkArticles})
           /\ news_data.articles = SubSeq(OkArticles, 1, Min(20, Len(OkArticles)))

\* one provider raised, one timed out, the third one's articles came back
C15_Witness ==
    /\ pc = "news_returned"
    /\ Len(news_tasks) = 3
    /\ news_tasks[1].outcome.kind = "exception"
    /\ news_tasks[2].outcome.kind = "timeout"
    /\ news_tasks[3].outcome.kind = "ok"
    /\ news_data.articles_count = MaxProviderArticles
    /\ news_data.sources_count = 2

\* C16: search_news returns the providers' articles in the fixed order
\* newsapi, newsdata, gnews, each provider's in the order it gave them, cut to
\* the first 20; articles_count is the length before the cut and sources_count
\* the number of distinct sources before the cut; with no provider configured
\* the result is 0, 0 and no articles.
C16_OrderAndCut ==
    pc = "news_returned" =>
        LET a == news_data.articles
            full == Extend([i \in DOMAIN news_tasks |-> news_tasks[i].value])
        IN  /\ Len(a) = Min(20, news_data.articles_count)
            /\ news_data.articles_count = Len(full)
            /\ \A i \in DOMAIN a : a[i] = full[i]
            /\ \A i, j \in DOMAIN full :
                   i < j =>
                       \/ ProviderIndex(full[i].api_source) < ProviderIndex(full[j].api_source)
                       \/ /\ full[i].api_source = full[j].api_source
                          /\ full[i].title < full[j].title
            /\ news_data.sources_count =
                   Cardinality({full[i].source : i \in DOMAIN full})
            /\ available_apis = <<>> =>
                   news_data = [articles_count |-> 0, sources_count |-> 0, articles |-> <<>>]

\* three providers gave 27 articles: 20 are returned, the count is 27
C16_Witness ==
    /\ pc = "news_returned"
    /\ news_data.articles_count = 3 * MaxProviderArticles
    /\ Len(news_data.articles) = 20
    /\ news_data.articles[20].api_source = "gnews"
    /\ news_data.sources_count = 4

\* ------------------------------------------- claims on the reference collector
\* C20: get_article_content follows at most one disambiguation redirect for
\* a candidate: the title it fetches is the candidate or its first
\* alternative, and a disambiguation of the alternative gives the candidate up.
C20_OneRedirect == pc = "wiki_fetch" => title.hop <= 1

\* ------------------------------------------------------ claims on the timeouts
\* C19: every external call is bounded by a timeout, so a call that never
\* returns is turned into a failure and the run goes on: analyze_news is never
\* left waiting with no step to take before it has returned its report.
C19_NoCallHangsTheRun ==
    pc \notin {"done", "raised"} => ENABLED NextHang

\* the candidate being fetched met nothing but transient errors so far
OnlyTransientErrors ==
    /\ title # None
    /\ title.hop = 0
    /\ last_fetch # None => last_fetch.kind = "error"

\* C21: for a candidate whose fetch keeps failing with a transient error,
\* get_article_content makes at most MAX_WIKIPEDIA_RETRIES attempts, sleeps
\* 2^k seconds after the k-th failed attempt when another attempt follows,
\* does not sleep after the last one, and then returns None: the candidate is
\* not among the articles.
C21_RetryBackoff ==
    (pc \in {"wiki_fetch", "wiki_for"} /\ OnlyTransientErrors) =>
        /\ retry_count <= MAX_WIKIPEDIA_RETRIES
        /\ pc = "wiki_fetch" =>
               /\ retry_count < MAX_WIKIPEDIA_RETRIES
               /\ Len(waits) = retry_count
        /\ \A k \in DOMAIN waits : waits[k] = 2 ^ k
        /\ (pc = "wiki_for" /\ last_fetch # None) =>
               /\ retry_count = MAX_WIKIPEDIA_RETRIES
               /\ Len(waits) = MAX_WIKIPEDIA_RETRIES - 1
               /\ \A i \in DOMAIN articles : articles[i].title.candidate # title.candidate

\* three failed attempts, sleeps of 2 and 4 seconds, the candidate dropped
C21_Witness ==
    /\ pc = "wiki_for"
    /\ OnlyTransientErrors
    /\ last_fetch # None
    /\ retry_count = 3
    /\ waits = <<2, 4>>

\* C22: find_relevant_articles does not raise and returns exactly the
\* candidates whose fetch succeeded, in the order of the search results and at
\* most 5 of them, each with title, summary, content and url; a candidate that
\* is not found is dropped with no further fetch; a failed search or a topic
\* with no usable candidate gives the empty list.
C22_ReturnsFetched ==
    /\ pc \in {"wiki_call", "wiki_for", "wiki_fetch", "wiki_returned"}
    /\ Len(articles) <= 5
    /\ Len(articles) <= candidate
    /\ \A i \in DOMAIN articles :
           /\ {"title", "summary", "content", "url"} \subseteq DOMAIN articles[i]
           /\ articles[i].title.candidate \in
                  {article_titles[j] : j \in 1..candidate}
    /\ \A i, j \in DOMAIN articles :
           i < j => articles[i].title.candidate < articles[j].title.candidate
    /\ (pc \in {"wiki_for", "wiki_returned"} /\ candidate > 0) =>
           /\ last_fetch # None
           /\ (last_fetch.kind = "ok") <=>
                  /\ articles # <<>>
                  /\ articles[Len(articles)].title.candidate = article_titles[candidate]
    /\ (last_fetch # None /\ last_fetch.kind = "not_found") => pc # "wiki_fetch"
    /\ pc = "wiki_returned" =>
           /\ wiki_articles = articles
           /\ candidate = Len(article_titles)
           /\ article_titles = <<>> => wiki_articles = <<>>

\* five titles found; the first and the last were fetched, the others dropped
C22_Witness ==
    /\ pc = "wiki_returned"
    /\ Len(article_titles) = 5
    /\ Len(wiki_articles) = 2
    /\ wiki_articles[1].title.candidate = 1
    /\ wiki_articles[2].title.candidate = 5
    /\ last_fetch.kind = "ok"

\* C27: get_article_content terminates for every sequence of responses, a
\* disambiguation whose first option is again ambiguous included: a fetch
\* loop that has started comes to its return.
C27_FetchLoopEnds == (pc = "wiki_fetch") ~> (pc # "wiki_fetch")

\* ------------------------------------------ claims on the discussion collector
\* C23: when the search fails or finds nothing, analyze_credibility returns a
\* payload whose has-results flag is false and whose counters are all zero:
\* discussion_count, average_score and average_comments are 0 and the lists of
\* top communities and of sample posts are empty.
C23_EmptyPayload ==
    (pc = "reddit_returned" /\ search_results = <<>>) =>
        /\ reddit_data.reddit_results = FALSE
        /\ reddit_data.discussion_count = 0
        /\ reddit_data.top_sources = <<>>
        /\ "average_score" \in DOMAIN reddit_data /\ reddit_data.average_score = 0
        /\ "average_comments" \in DOMAIN reddit_data /\ reddit_data.average_comments = 0
        /\ "sample_posts" \in DOMAIN reddit_data /\ reddit_data.sample_posts = <<>>

PostsOf(sr) == {i \in DOMAIN search_results : search_results[i].subreddit = sr}

\* C24: for every non-empty list of posts, top_sources holds at most 5
\* communities, each with its number of posts, in non-increasing order of that
\* number, no community left out having more posts than one kept, and the
\* numbers summing to at most discussion_count; sample_posts holds the 3 (or
\* fewer) posts of highest score in non-increasing order of score.
C24_TopAndSample ==
    (pc = "reddit_returned" /\ search_results # <<>>) =>
        LET top == reddit_data.top_sources
            sample == reddit_data.sample_posts
            kept == {top[i].subreddit : i \in DOMAIN top}
            all == {search_results[i].subreddit : i \in DOMAIN search_results}
            sampled == {sample[i].title : i \in DOMAIN sample}
        IN  /\ reddit_data.discussion_count = Len(search_results)
            /\ Len(top) = Min(5, Cardinality(all))
            /\ Cardinality(kept) = Len(top)
            /\ \A i \in DOMAIN top : top[i].count = Cardinality(PostsOf(top[i].subreddit))
            /\ \A i, j \in DOMAIN top : i < j => top[i].count >= top[j].count
            /\ \A sr \in all \ kept :
                   \A i \in DOMAIN top : Cardinality(PostsOf(sr)) <= top[i].count
            /\ SumOf([i \in DOMAIN top |-> top[i].count]) <= reddit_data.discussion_count
            /\ Len(sample) = Min(3, Len(search_results))
            /\ Cardinality(sampled) = Len(sample)
            /\ \A i \in DOMAIN sample :
                   /\ sample[i].title \in DOMAIN search_results
                   /\ sample[i].score = search_results[sample[i].title].score
            /\ \A i, j \in DOMAIN sample : i < j => sample[i].score >= sample[j].score
            /\ \A k \in DOMAIN search_results \ sampled :
                   \A i \in DOMAIN sample : search_results[k].score <= sample[i].score

\* eight posts over seven communities: five communities kept, three posts sampled
C24_Witness ==
    /\ pc = "reddit_returned"
    /\ Len(search_results) = MaxPosts
    /\ Cardinality({search_results[i].subreddit : i \in DOMAIN search_results}) = 7
    /\ Len(reddit_data.top_sources) = 5
    /\ reddit_data.top_sources[1].count = 2
    /\ Len(reddit_data.sample_posts) = 3
    /\ reddit_data.sample_posts[1].score = 2

\* ------------------------------------------- claims on the sentiment collector
\* C25: analyze_sentiment returns a payload in every case: with an analyzer
\* the pipeline receives the first 512 characters of the text and nothing
\* more, and the payload holds sentiment and score, or an error when the
\* inference fails; without an analyzer the pipeline is not called and the
\* payload is the explicit error.
C25_SentimentPayload ==
    pc = "sentiment_returned" =>
        IF ai_service.sentiment_analyzer
        THEN /\ Len(analyzer_input) = 1
             /\ Len(analyzer_input[1]) = Min(512, Len(request.text))
             /\ \A i \in DOMAIN analyzer_input[1] : analyzer_input[1][i] = request.text[i]
             /\ \/ {"sentiment", "score"} \subseteq DOMAIN sentiment_analysis
                \/ DOMAIN sentiment_analysis = {"error"}
        ELSE /\ analyzer_input = <<>>
             /\ sentiment_analysis = [error |-> "Sentiment analyzer not initialized"]

\* a text of 513 characters was analysed from its first 512
C25_Witness ==
    /\ pc = "sentiment_returned"
    /\ Len(request.text) = 513
    /\ Len(analyzer_input) = 1
    /\ Len(analyzer_input[1]) = 512
    /\ "sentiment" \in DOMAIN sentiment_analysis

\* ---------------------------------------- further claims on the orchestrator
\* C26: the parser falls back field by field: a field that is present and
\* well-formed in the response (factual score, overall verdict, confidence)
\* is extracted whatever happens to the other fields of the same response.
C26_PerFieldFallback ==
    (AfterRag /\ ProviderReady /\ "raw_analysis" \in DOMAIN rag_analysis) =>
        LET text == rag_analysis.raw_analysis IN
        /\ text.score.kind = "value" =>
               /\ "factual_score" \in DOMAIN rag_analysis
               /\ rag_analysis.factual_score = text.score.value
        /\ text.verdict.kind = "text" =>
               /\ "verdict" \in DOMAIN rag_analysis
               /\ rag_analysis.verdict = text.verdict.text
        /\ text.confidence.kind = "value" =>
               /\ "confidence" \in DOMAIN rag_analysis
               /\ rag_analysis.confidence = text.confidence.value

\* C28: in every run of analyze_news the discussion collector reports a
\* discussion_count of at most 20, so source_credibility is at most 25 (the
\* 15 points of the top tier are never given) and the score of the report is
\* at most 95.
C28_ScoreCeiling ==
    /\ reddit_data # None => DiscussionCount <= SearchLimit
    /\ AfterScore =>
           /\ verification_result.source_credibility <= 25
           /\ verification_result.score <= 95

\* ------------------------------------------- a further claim on the engine
\* C30: outside the band [40,60) the total decides the verdict whatever the AI
\* flag: 60 or more is REAL, less than 40 is FAKE; between two calls with the
\* same AI flag, a total that is not lower never turns REAL into FAKE; and the
\* verdict is FAKE exactly when the returned is_fake is true.
C30_TotalDominates ==
    pc \in {"mono_scored", "mono_rescored"} =>
        LET r == verification_result IN
        /\ r.score >= 60 => r.verdict = "REAL"
        /\ r.score < 40 => r.verdict = "FAKE"
        /\ (r.verdict = "FAKE") <=> r.is_fake
        /\ r.verdict \in {"FAKE", "REAL"}
        /\ (/\ pc = "mono_rescored"
            /\ Get(prev_call.rag_analysis, "is_fake", FALSE) = AiIsFake
            /\ prev_call.result.score <= r.score
            /\ prev_call.result.verdict = "REAL") => r.verdict = "REAL"

\* the AI says fake; the total went from below 60 to 60 or more and the
\* verdict from FAKE to REAL
C30_Witness ==
    /\ pc = "mono_rescored"
    /\ AiIsFake
    /\ Get(prev_call.rag_analysis, "is_fake", FALSE)
    /\ prev_call.result.score \in 40..59
    /\ prev_call.result.verdict = "FAKE"
    /\ verification_result.score >= 60
    /\ verification_result.verdict = "REAL"

\* -------------------------------------------------- claim on the fork-join
\* what search_news returns when the providers run one after the other
SequentialNews ==
    SearchNews(Extend([i \in DOMAIN news_tasks |->
                          IF news_tasks[i].outcome.kind = "ok"
                          THEN news_tasks[i].outcome.articles ELSE <<>>]))

\* C29: whatever the order in which the four collectors and the news
\* providers complete, each result is bound to its own collector, the merged
\* news articles are in the order of a sequential run, and the verification
\* result is the one the engine gives for the collectors' outputs.
C29_OrderIndependent ==
    /\ (pc = "gather" /\ "news" \in done) => task_result["news"] = SequentialNews
    /\ pc \in {"rag", "score", "summary", "assemble", "done"} =>
           /\ reddit_data = task_result["reddit"]
           /\ "reddit_results" \in DOMAIN reddit_data
           /\ wiki_articles = task_result["wiki"]
           /\ DOMAIN wiki_articles = 1..Len(wiki_articles)
           /\ news_data = SequentialNews
           /\ sentiment_analysis = task_result["sentiment"]
           /\ DOMAIN sentiment_analysis \subseteq {"sentiment", "score", "analysis", "error"}
    /\ AfterScore =>
           verification_result =
               CalculateVerificationScore(task_result["reddit"], task_result["wiki"],
                                          SequentialNews, rag_analysis)
    /\ pc = "done" => result.verification_result = verification_result

\* the report of a run whose tasks completed in the reverse of the task order
C29_Witness ==
    /\ pc = "done"
    /\ completion_order = <<"sentiment", "gnews", "newsdata", "newsapi", "news", "wiki", "reddit">>
    /\ news_data.articles_count = 6
    /\ news_data.articles[1].api_source = "newsapi"
    /\ news_data.articles[6].api_source = "gnews"
    /\ result.verification_result.score > 0

====
